---- MODULE Spec2Model ----
(***************************************************************************)
(* The auction program of programs/auction/src/lib.rs: one auction (the    *)
(* State account of one seller), its treasury account and the UserBid      *)
(* accounts of the bidders, driven by the four instructions initialize,    *)
(* bid, end_auction and refund.  Every instruction is one transaction: the *)
(* Anchor account validation of its #[derive(Accounts)] struct runs first, *)
(* then the handler; an error in either leaves every account as it was.    *)
(*                                                                         *)
(* Results: "Ok"; the AuctionError variants "StillActive", "Finished",     *)
(* "UnclaimedPrize", "AlreadyClaimedPrize", "TreasuryInsufficientFunds";   *)
(* and the errors raised outside the handlers: "AccountNotInitialized" (an *)
(* Account<T> that does not exist: the spec's NoSuchBid),                  *)
(* "AccountAlreadyInUse" (`init` of an existing account: AlreadyExists),   *)
(* "ConstraintHasOne" (has_one: Unauthorized), "ConstraintSeeds" (an       *)
(* account at another address than the seeds give), "InsufficientLamports" *)
(* (a system transfer the payer cannot cover: TransferFailed), "Panicked". *)
(***************************************************************************)
EXTENDS Integers, Sequences, FiniteSets, TLC

\* ---------------------------------------------------------------- bounds
\* Largest clock value the model lets the Clock sysvar reach.
MaxTime == 2
\* Width of the scaled i64 timestamp: values I64Min..I64Max wrap modulo 2^I64Bits.
I64Bits == 4
\* The f64 `amount` of bid is the rational k / (SubLamport * 10^9) SOL, k an integer.
SubLamport == 2
\* Largest bid, in lamports, a bidder places.
MaxBid == 2
\* Lamports every wallet holds at the start.
InitLamports == 4

\* Rent-exempt minimum the payer of an `init` account puts into it (one scaled
\* unit for every account size).
RentExemptMin == 1

I64Max == 2 ^ (I64Bits - 1) - 1
I64Min == 0 - 2 ^ (I64Bits - 1)

\* ------------------------------------------------------------ identities
Seller == "s"
Users == {"s", "a", "b"}
\* Pubkey::default(), the value of State.highest_bidder_account before any bid
\* took the lead; nobody can sign for it.
DefaultPubkey == "default"
Keys == Users \cup {DefaultPubkey}

\* The amounts passed to bid: a negative one, and for every k in 0..MaxBid one
\* that lies between k and k + 1 lamports.
AmountsIn == {0 - 1} \cup {k * SubLamport + 1 : k \in 0 .. MaxBid}
Durations == {0 - 1, 1, I64Max}

VARIABLES
    now,            \* Clock::get()?.unix_timestamp
    state_created,  \* the State account exists
    state,          \* the State account's fields
    user_bid,       \* the existing UserBid accounts: bidder -> amount
    treasury,       \* lamports of the treasury account
    lamports,       \* lamports of every wallet
    last,           \* the instruction just executed and its result
    committed,      \* history: the accepted bids, in commit order
    seller_paid,    \* history: lamports moved from the treasury to the seller
    refunded,       \* history: lamports moved from the treasury to each bidder
    refund_count,   \* history: successful refund calls of each bidder
    settle_count    \* history: successful end_auction calls

vars == <<now, state_created, state, user_bid, treasury, lamports,
          last, committed, seller_paid, refunded,
          refund_count, settle_count>>

accounts == <<state_created, state, user_bid, treasury, lamports>>
history == <<committed, seller_paid, refunded, refund_count, settle_count>>

\* ---------------------------------------------------------------- helpers
\* The State account as `init` leaves it: zeroed.
State ==
    [deadline |-> 0, initializer |-> DefaultPubkey, seller_payed |-> FALSE,
     highest_bid_amount |-> 0, highest_bidder_account |-> DefaultPubkey]

\* i64 arithmetic of a build without overflow checks: two's complement wrap.
WrapI64(x) == ((x - I64Min) % (2 ^ I64Bits)) + I64Min

\* sol_to_lamports: (sol * LAMPORTS_PER_SOL as f64) as u64; the cast truncates
\* toward zero and saturates, so a negative amount gives 0.
sol_to_lamports(amount) ==
    IF amount < 0 THEN 0 ELSE amount \div SubLamport

Call(op, caller, result) ==
    [op |-> op, caller |-> caller, result |-> result]

\* ------------------------------------------------------------- initialize
\* Mutant: the accounts are created again when they exist.
Initialize_recreates(initializer) ==
    IF lamports[initializer] < 2 * RentExemptMin THEN "InsufficientLamports"
    ELSE "Ok"

\* Initialize<'info>: `init` of the state PDA (and of the treasury PDA) fails
\* when the account already exists, and needs the payer to fund both accounts.
Initialize(initializer) ==
    IF state_created THEN "AccountAlreadyInUse"
    ELSE IF lamports[initializer] < 2 * RentExemptMin THEN "InsufficientLamports"
    ELSE "Ok"

\* The handler: deadline = clock.unix_timestamp + auction_duration.  When the
\* sum leaves the i64 range, a build with overflow checks panics and a build
\* without them wraps.
initialize_result(auction_duration, overflow_checks) ==
    IF (now + auction_duration > I64Max \/ now + auction_duration < I64Min)
          /\ overflow_checks
    THEN "Panicked"
    ELSE "Ok"

initialize(auction_duration, overflow_checks) ==
    LET v == Initialize(Seller)
        r == IF v # "Ok" THEN v
             ELSE initialize_result(auction_duration, overflow_checks)
    IN  /\ last' = Call("initialize", Seller, r)
        /\ IF r = "Ok"
           THEN /\ state_created' = TRUE
                /\ state' = [State EXCEPT !.deadline = WrapI64(now + auction_duration),
                                          !.initializer = Seller]
                /\ treasury' = RentExemptMin
                /\ lamports' = [lamports EXCEPT ![Seller] = @ - 2 * RentExemptMin]
                /\ UNCHANGED user_bid
           ELSE UNCHANGED accounts
        /\ UNCHANGED <<now, history>>

\* -------------------------------------------------------------------- bid
\* Mutant: user_bid is `init_if_needed`, an existing account is reused.
PlaceBid_init_if_needed(user) ==
    IF ~state_created THEN "AccountNotInitialized"
    ELSE IF user \notin DOMAIN user_bid /\ lamports[user] < RentExemptMin
         THEN "InsufficientLamports"
    ELSE "Ok"

\* PlaceBid<'info>: the state account must exist; `init` of the caller's
\* user-bid PDA fails when that account already exists, and the caller pays
\* its rent.
PlaceBid(user) ==
    IF ~state_created THEN "AccountNotInitialized"
    ELSE IF user \in DOMAIN user_bid THEN "AccountAlreadyInUse"
    ELSE IF lamports[user] < RentExemptMin THEN "InsufficientLamports"
    ELSE "Ok"

\* Mutant: a bid is still accepted at the deadline itself.
bid_result_at_deadline(user, amount) ==
    IF now > state.deadline THEN "Finished"
    ELSE IF lamports[user] - RentExemptMin < sol_to_lamports(amount)
         THEN "InsufficientLamports"
    ELSE "Ok"

\* The handler's checks: the deadline, then the system transfer to the treasury.
bid_result(user, amount) ==
    IF now >= state.deadline THEN "Finished"
    ELSE IF lamports[user] - RentExemptMin < sol_to_lamports(amount)
         THEN "InsufficientLamports"
    ELSE "Ok"

\* "check if highest bid"
is_highest_bid(amount_in_lamports) ==
    amount_in_lamports > state.highest_bid_amount

\* Mutant: when the transfer to the treasury fails, the UserBid account
\* created and written before it stays.
bid_keeps_partial_write(user, amount) ==
    LET v == PlaceBid(user)
        r == IF v # "Ok" THEN v ELSE bid_result(user, amount)
        amount_in_lamports == sol_to_lamports(amount)
        written == [u \in DOMAIN user_bid \cup {user} |->
                       IF u = user THEN amount_in_lamports ELSE user_bid[u]]
    IN  /\ last' = Call("bid", user, r)
        /\ IF r = "Ok"
           THEN /\ user_bid' = written
                /\ lamports' = [lamports EXCEPT
                                   ![user] = @ - RentExemptMin - amount_in_lamports]
                /\ treasury' = treasury + amount_in_lamports
                /\ state' = IF is_highest_bid(amount_in_lamports)
                            THEN [state EXCEPT
                                     !.highest_bid_amount = amount_in_lamports,
                                     !.highest_bidder_account = user]
                            ELSE state
                /\ committed' = Append(committed,
                                       [bidder |-> user, amount |-> amount_in_lamports])
                /\ UNCHANGED state_created
           ELSE IF v = "Ok" /\ r = "InsufficientLamports"
           THEN /\ user_bid' = written
                /\ lamports' = [lamports EXCEPT ![user] = @ - RentExemptMin]
                /\ UNCHANGED <<state_created, state, treasury, committed>>
           ELSE UNCHANGED <<accounts, committed>>
        /\ UNCHANGED <<now, seller_paid, refunded,
                       refund_count, settle_count>>

bid(user, amount) ==
    LET v == PlaceBid(user)
        r == IF v # "Ok" THEN v ELSE bid_result(user, amount)
        amount_in_lamports == sol_to_lamports(amount)
    IN  /\ last' = Call("bid", user, r)
        /\ IF r = "Ok"
           THEN /\ user_bid' = [u \in DOMAIN user_bid \cup {user} |->
                                   IF u = user THEN amount_in_lamports ELSE user_bid[u]]
                /\ lamports' = [lamports EXCEPT
                                   ![user] = @ - RentExemptMin - amount_in_lamports]
                /\ treasury' = treasury + amount_in_lamports
                /\ state' = IF is_highest_bid(amount_in_lamports)
                            THEN [state EXCEPT
                                     !.highest_bid_amount = amount_in_lamports,
                                     !.highest_bidder_account = user]
                            ELSE state
                /\ committed' = Append(committed,
                                       [bidder |-> user, amount |-> amount_in_lamports])
                /\ UNCHANGED state_created
           ELSE UNCHANGED <<accounts, committed>>
        /\ UNCHANGED <<now, seller_paid, refunded,
                       refund_count, settle_count>>

\* ------------------------------------------------- transfer_from_treasury
transfer_from_treasury(amount) ==
    IF treasury < amount THEN "TreasuryInsufficientFunds" ELSE "Ok"

\* ------------------------------------------------------------ end_auction
\* EndAuction<'info>: every account is loaded first (the passed user_bid
\* must be an existing UserBid account), then the constraints: has_one =
\* initializer on state, and the seeds of user_bid, derived from
\* state.highest_bidder_account.
\* Mutant: has_one = initializer is missing.
EndAuction_no_has_one(initializer, bid_acct) ==
    IF ~state_created THEN "AccountNotInitialized"
    ELSE IF bid_acct \notin DOMAIN user_bid THEN "AccountNotInitialized"
    ELSE IF bid_acct # state.highest_bidder_account THEN "ConstraintSeeds"
    ELSE "Ok"

\* Mutant: the seeds of user_bid are not checked.
EndAuction_no_seeds(initializer, bid_acct) ==
    IF ~state_created THEN "AccountNotInitialized"
    ELSE IF bid_acct \notin DOMAIN user_bid THEN "AccountNotInitialized"
    ELSE IF state.initializer # initializer THEN "ConstraintHasOne"
    ELSE "Ok"

EndAuction(initializer, bid_acct) ==
    IF ~state_created THEN "AccountNotInitialized"
    ELSE IF bid_acct \notin DOMAIN user_bid THEN "AccountNotInitialized"
    ELSE IF state.initializer # initializer THEN "ConstraintHasOne"
    ELSE IF bid_acct # state.highest_bidder_account THEN "ConstraintSeeds"
    ELSE "Ok"

\* Mutant: the deadline check is missing.
end_auction_result_no_deadline_check(bid_acct) ==
    IF state.seller_payed THEN "AlreadyClaimedPrize"
    ELSE IF user_bid[bid_acct] > 0 THEN transfer_from_treasury(user_bid[bid_acct])
    ELSE "Ok"

\* Mutant: the seller_payed check is missing.
end_auction_result_no_paid_check(bid_acct) ==
    IF now < state.deadline THEN "StillActive"
    ELSE IF user_bid[bid_acct] > 0 THEN transfer_from_treasury(user_bid[bid_acct])
    ELSE "Ok"

end_auction_result(bid_acct) ==
    IF now < state.deadline THEN "StillActive"
    ELSE IF state.seller_payed THEN "AlreadyClaimedPrize"
    ELSE IF user_bid[bid_acct] > 0 THEN transfer_from_treasury(user_bid[bid_acct])
    ELSE "Ok"

end_auction(initializer, bid_acct) ==
    LET v == EndAuction(initializer, bid_acct)
        r == IF v # "Ok" THEN v ELSE end_auction_result(bid_acct)
    IN  /\ last' = Call("end_auction", initializer, r)
        /\ IF r = "Ok"
           THEN LET amount_to_pay == user_bid[bid_acct]
                IN  /\ treasury' = treasury - amount_to_pay
                    /\ lamports' = [lamports EXCEPT ![initializer] = @ + amount_to_pay]
                    /\ state' = [state EXCEPT !.seller_payed = TRUE,
                                              !.highest_bid_amount = 0]
                    /\ seller_paid' = seller_paid + amount_to_pay
                    /\ settle_count' = settle_count + 1
                    /\ UNCHANGED <<state_created, user_bid>>
           ELSE UNCHANGED <<accounts, seller_paid, settle_count>>
        /\ UNCHANGED <<now, committed, refunded, refund_count>>

\* ----------------------------------------------------------------- refund
\* Mutant: the seeds of user_bid are not checked.
Refund_no_seeds(user, bid_acct) ==
    IF ~state_created THEN "AccountNotInitialized"
    ELSE IF bid_acct \notin DOMAIN user_bid THEN "AccountNotInitialized"
    ELSE "Ok"

\* Refund<'info>: the passed user_bid must be an existing UserBid account at
\* the address derived from the signing user.
Refund(user, bid_acct) ==
    IF ~state_created THEN "AccountNotInitialized"
    ELSE IF bid_acct \notin DOMAIN user_bid THEN "AccountNotInitialized"
    ELSE IF bid_acct # user THEN "ConstraintSeeds"
    ELSE "Ok"

\* Mutant: the highest bidder is refunded like everybody else.
amount_to_refund_winner_too(user, bid_acct) ==
    user_bid[bid_acct]

\* What the treasury owes the caller: nothing to the highest bidder.
amount_to_refund(user, bid_acct) ==
    IF state.highest_bidder_account # user THEN user_bid[bid_acct] ELSE 0

\* Mutant: the seller_payed check is missing.
refund_result_no_paid_check(user, bid_acct) ==
    IF now < state.deadline THEN "StillActive"
    ELSE IF amount_to_refund(user, bid_acct) > 0
         THEN transfer_from_treasury(amount_to_refund(user, bid_acct))
    ELSE "Ok"

\* Mutant: the account is not closed.
close_keeps_account(bid_acct) ==
    user_bid

\* user_bid.close(user): the account is deleted, its lamports go to user.
close(bid_acct) ==
    [u \in DOMAIN user_bid \ {bid_acct} |-> user_bid[u]]

refund_result(user, bid_acct) ==
    IF now < state.deadline THEN "StillActive"
    ELSE IF ~state.seller_payed THEN "UnclaimedPrize"
    ELSE IF amount_to_refund(user, bid_acct) > 0
         THEN transfer_from_treasury(amount_to_refund(user, bid_acct))
    ELSE "Ok"

\* Mutant: the winner's refund clears the leader in State.
refund_clears_leader(user, bid_acct) ==
    LET v == Refund(user, bid_acct)
        r == IF v # "Ok" THEN v ELSE refund_result(user, bid_acct)
    IN  /\ last' = Call("refund", user, r)
        /\ IF r = "Ok"
           THEN LET amount == amount_to_refund(user, bid_acct)
                IN  /\ treasury' = treasury - amount
                    /\ lamports' = [lamports EXCEPT ![user] = @ + amount + RentExemptMin]
                    /\ user_bid' = close(bid_acct)
                    /\ refunded' = [refunded EXCEPT ![user] = @ + amount]
                    /\ refund_count' = [refund_count EXCEPT ![user] = @ + 1]
                    /\ state' = IF state.highest_bidder_account = user
                                THEN [state EXCEPT
                                         !.highest_bidder_account = DefaultPubkey]
                                ELSE state
                    /\ UNCHANGED state_created
           ELSE UNCHANGED <<accounts, refunded, refund_count>>
        /\ UNCHANGED <<now, committed, seller_paid, settle_count>>

refund(user, bid_acct) ==
    LET v == Refund(user, bid_acct)
        r == IF v # "Ok" THEN v ELSE refund_result(user, bid_acct)
    IN  /\ last' = Call("refund", user, r)
        /\ IF r = "Ok"
           THEN LET amount == amount_to_refund(user, bid_acct)
                IN  /\ treasury' = treasury - amount
                    \* the transfer, then close(): the account's rent goes to user
                    /\ lamports' = [lamports EXCEPT ![user] = @ + amount + RentExemptMin]
                    /\ user_bid' = close(bid_acct)
                    /\ refunded' = [refunded EXCEPT ![user] = @ + amount]
                    /\ refund_count' = [refund_count EXCEPT ![user] = @ + 1]
                    /\ UNCHANGED <<state_created, state>>
           ELSE UNCHANGED <<accounts, refunded, refund_count>>
        /\ UNCHANGED <<now, committed, seller_paid, settle_count>>

\* ------------------------------------------------------------------ clock
Tick ==
    /\ now < MaxTime
    /\ now' = now + 1
    /\ last' = Call("tick", DefaultPubkey, "Ok")
    /\ UNCHANGED <<accounts, history>>

\* ---------------------------------------------------------- specification
Init ==
    /\ now = 1
    /\ state_created = FALSE
    /\ state = State
    /\ user_bid = << >>
    /\ treasury = 0
    /\ lamports = [u \in Users |-> InitLamports]
    /\ last = Call("none", DefaultPubkey, "Ok")
    /\ committed = << >>
    /\ seller_paid = 0
    /\ refunded = [u \in Users |-> 0]
    /\ refund_count = [u \in Users |-> 0]
    /\ settle_count = 0

Next ==
    \/ Tick
    \/ \E d \in Durations, oc \in BOOLEAN : initialize(d, oc)
    \/ \E u \in Users, a \in AmountsIn : bid(u, a)
    \/ \E c \in Users, k \in Keys : end_auction(c, k)
    \/ \E u \in Users, k \in Keys : refund(u, k)

Spec == Init /\ [][Next]_vars

\* The calls the participants keep making: the clock advances, the seller
\* calls end_auction with the leader's Bid account once the deadline has
\* passed, every bidder calls refund with their own Bid account.
SellerCallsSettle ==
    /\ state_created
    /\ now >= state.deadline
    /\ end_auction(state.initializer, state.highest_bidder_account)

BidderCallsRefund(u) ==
    /\ u \in DOMAIN user_bid
    /\ now >= state.deadline
    /\ refund(u, u)

LiveSpec ==
    /\ Init
    /\ [][Next]_vars
    /\ WF_vars(Tick)
    /\ WF_vars(SellerCallsSettle)
    /\ \A u \in Users : WF_vars(BidderCallsRefund(u))

\* ------------------------------------------------- quantities of the claims
RECURSIVE SumOver(_, _)
SumOver(f, S) ==
    IF S = {} THEN 0
    ELSE LET x == CHOOSE y \in S : TRUE IN f[x] + SumOver(f, S \ {x})

\* The escrowed funds: what the treasury holds beyond its own rent.
escrowBalance == treasury - RentExemptMin

\* Sum of the amounts of the Bid records that exist.
OutstandingBids == SumOver(user_bid, DOMAIN user_bid)

CommittedAmounts == {committed[i].amount : i \in 1 .. Len(committed)}

MaxCommitted ==
    CHOOSE m \in CommittedAmounts : \A x \in CommittedAmounts : x <= m

\* The earliest committed bid whose amount is the maximum.
EarliestMaxBidder ==
    LET i == CHOOSE k \in 1 .. Len(committed) :
                 /\ committed[k].amount = MaxCommitted
                 /\ \A j \in 1 .. (k - 1) : committed[j].amount < MaxCommitted
    IN  committed[i].bidder

\* What a bidder deposited by accepted bids.
Deposited(u) ==
    SumOver([i \in 1 .. Len(committed) |-> committed[i].amount],
            {i \in 1 .. Len(committed) : committed[i].bidder = u})

TotalDeposited == SumOver([u \in Users |-> Deposited(u)], Users)
TotalRefunded == SumOver(refunded, Users)

\* ----------------------------------------------------------------------- C1
\* C1: while the seller has not settled, highest_bid_amount is the maximum of
\* the committed bid amounts and highest_bidder_account is the earliest
\* committed bidder whose bid reached that maximum.
C1_LeaderIsEarliestMax ==
    (state_created /\ ~state.seller_payed /\ committed # << >>) =>
        /\ state.highest_bid_amount = MaxCommitted
        /\ state.highest_bidder_account = EarliestMaxBidder


\* ----------------------------------------------------------------------- C2
\* C2 as stated: once the auction exists, the escrow balance is the sum of
\* the existing Bid records' amounts, minus the amount paid to the seller
\* once seller_payed is set, and it is never negative.
C2_EscrowConservationAsStated ==
    state_created =>
        /\ escrowBalance =
              OutstandingBids - (IF state.seller_payed THEN seller_paid ELSE 0)
        /\ escrowBalance >= 0

\* The Bid record the seller was paid from, while it still exists.
SettledWinnerBid ==
    IF state.seller_payed /\ state.highest_bidder_account \in DOMAIN user_bid
    THEN user_bid[state.highest_bidder_account]
    ELSE 0

\* C2, amended: the escrow balance is the sum of the existing Bid records'
\* amounts, minus the winning amount only while seller_payed is set and the
\* winner's Bid record still exists; it is never negative.
C2_EscrowConservation ==
    state_created =>
        /\ escrowBalance = OutstandingBids - SettledWinnerBid
        /\ escrowBalance >= 0

\* The winner has closed their record while a loser's deposit is still escrowed.
C2_WinnerRefundedFirst ==
    /\ state.seller_payed
    /\ seller_paid > 0
    /\ refund_count[state.highest_bidder_account] = 1
    /\ escrowBalance > 0

\* ----------------------------------------------------------------------- C3
\* C3: what left the escrow (seller payout plus refunds) never exceeds what
\* accepted bids put in; the seller is paid exactly the winner's deposit and
\* the winner gets none of it back; every other bidder gets back nothing or
\* exactly their own deposit.
C3_NoDoublePayout ==
    /\ seller_paid + TotalRefunded <= TotalDeposited
    /\ settle_count = 0 => seller_paid = 0 /\ TotalRefunded = 0
    /\ settle_count > 0 =>
          /\ state.highest_bidder_account \in Users
          /\ seller_paid = Deposited(state.highest_bidder_account)
          /\ refunded[state.highest_bidder_account] = 0
          /\ \A u \in Users \ {state.highest_bidder_account} :
                 refunded[u] = (IF refund_count[u] > 0 THEN Deposited(u) ELSE 0)

\* The seller was paid, a loser was refunded and the winner closed their record.
C3_AllPaidOut ==
    /\ settle_count = 1
    /\ seller_paid > 0
    /\ refund_count[state.highest_bidder_account] = 1
    /\ \E u \in Users : refunded[u] > 0

\* ----------------------------------------------------------------------- C4
\* The seller passes the account EndAuction derives: the highest bidder's.
SellerSettles == end_auction(state.initializer, state.highest_bidder_account)

\* C4 as stated: after a successful settle, every further settle call of the
\* seller fails with AlreadyClaimedPrize and moves no funds.
C4_SecondSettleAsStated ==
    [][(last'.op = "end_auction" /\ state.seller_payed /\ SellerSettles) =>
           /\ last'.result = "AlreadyClaimedPrize"
           /\ UNCHANGED <<accounts, history>>]_vars

\* C4, amended: settle succeeds at most once; after a successful settle every
\* further settle call, by anyone and with any Bid account, fails and moves
\* no funds; it fails with AlreadyClaimedPrize when the seller calls while
\* the winner's Bid record exists, and with the record-not-found error of
\* account validation once the winner's refund deleted that record.
C4_SettleAtMostOnce ==
    /\ [](settle_count <= 1)
    /\ [][(last'.op = "end_auction" /\ state.seller_payed) =>
               /\ last'.result # "Ok"
               /\ UNCHANGED <<accounts, history>>
               /\ SellerSettles =>
                      last'.result =
                          (IF state.highest_bidder_account \in DOMAIN user_bid
                           THEN "AlreadyClaimedPrize"
                           ELSE "AccountNotInitialized")]_vars

\* A second settle was rejected after the winner had closed their record.
C4_SettleAfterWinnerRefund ==
    /\ settle_count = 1
    /\ refund_count[state.highest_bidder_account] = 1
    /\ last = Call("end_auction", state.initializer, "AccountNotInitialized")

\* ----------------------------------------------------------------------- C5
\* C5: a bidder is refunded at most once: after their successful refund the
\* Bid record is gone, and every later refund call of that bidder fails and
\* moves no funds, with the record-not-found error when they pass their own
\* Bid account.
C5_RefundAtMostOnce ==
    /\ [](\A u \in Users :
             /\ refund_count[u] <= 1
             /\ refund_count[u] = 1 => u \notin DOMAIN user_bid)
    /\ [][(last'.op = "refund" /\ refund_count[last'.caller] >= 1) =>
               /\ last'.result # "Ok"
               /\ UNCHANGED <<accounts, history>>
               /\ refund(last'.caller, last'.caller) =>
                      last'.result = "AccountNotInitialized"]_vars

\* A refunded bidder asked again and was rejected.
C5_SecondRefundRejected ==
    /\ last.op = "refund"
    /\ last.result = "AccountNotInitialized"
    /\ refund_count[last.caller] = 1
    /\ refunded[last.caller] > 0

\* ----------------------------------------------------------------------- C6
\* C6 as stated: every bid call on an existing auction at or after the
\* deadline fails with Finished and changes no account.
C6_LateBidAsStated ==
    [][(last'.op = "bid" /\ state_created /\ now >= state.deadline) =>
           /\ last'.result = "Finished"
           /\ UNCHANGED <<accounts, history>>]_vars

\* C6, amended: every bid call at or after the deadline fails and changes no
\* account, so no bid is accepted then; the error is Finished when the caller
\* holds no Bid record and can pay the rent of one (a caller who already
\* holds a Bid record is rejected by the creation of the record instead).
C6_NoLateBid ==
    [][(last'.op = "bid" /\ state_created /\ now >= state.deadline) =>
           /\ last'.result # "Ok"
           /\ UNCHANGED <<accounts, history>>
           /\ (last'.caller \notin DOMAIN user_bid
                  /\ lamports[last'.caller] >= RentExemptMin) =>
                  last'.result = "Finished"]_vars

\* A bid arrived at or after the deadline of an auction that has bids.
C6_LateBidRejected ==
    /\ last.op = "bid"
    /\ last.result = "Finished"
    /\ now >= state.deadline
    /\ committed # << >>

\* ----------------------------------------------------------------------- C7
\* C7 as stated: every refund call of a bidder holding a Bid record, made
\* while seller_payed is false, fails with UnclaimedPrize.
C7_EarlyRefundAsStated ==
    [][(last'.op = "refund" /\ ~state.seller_payed
          /\ last'.caller \in DOMAIN user_bid
          /\ refund(last'.caller, last'.caller)) =>
           /\ last'.result = "UnclaimedPrize"
           /\ UNCHANGED <<accounts, history>>]_vars

\* C7, amended: every refund call made while seller_payed is false fails,
\* moves no funds and deletes no Bid record, and no refund has succeeded
\* while seller_payed is false; for a caller passing their own existing Bid
\* record the error is UnclaimedPrize at or after the deadline and
\* StillActive before it.
C7_NoRefundBeforeSettle ==
    /\ [](\A u \in Users : refund_count[u] > 0 => state.seller_payed)
    /\ [][(last'.op = "refund" /\ ~state.seller_payed) =>
               /\ last'.result # "Ok"
               /\ UNCHANGED <<accounts, history>>
               /\ (last'.caller \in DOMAIN user_bid
                      /\ refund(last'.caller, last'.caller)) =>
                      last'.result =
                          (IF now < state.deadline THEN "StillActive"
                           ELSE "UnclaimedPrize")]_vars

\* A bidder asked for a refund after the deadline, before the seller settled.
C7_RefundBeforeSettleRejected ==
    /\ last.op = "refund"
    /\ last.result = "UnclaimedPrize"
    /\ last.caller \in DOMAIN user_bid
    /\ ~state.seller_payed

\* ----------------------------------------------------------------------- C8
\* C8: a successful end_auction is called by the seller, moves exactly the
\* amount of the highest bidder's Bid record from the treasury to the seller,
\* sets seller_payed, resets highest_bid_amount to 0 and leaves
\* highest_bidder_account and every Bid record in place.
C8_SettleEffect ==
    [][(last'.op = "end_auction" /\ last'.result = "Ok") =>
           LET w == state.highest_bidder_account
           IN  /\ w \in DOMAIN user_bid
               /\ last'.caller = state.initializer
               /\ treasury' = treasury - user_bid[w]
               /\ lamports' = [lamports EXCEPT ![state.initializer] = @ + user_bid[w]]
               /\ state' = [state EXCEPT !.seller_payed = TRUE,
                                         !.highest_bid_amount = 0]
               /\ user_bid' = user_bid]_vars

\* The seller has just been paid while another bidder's deposit stays escrowed.
C8_SellerJustPaid ==
    /\ last = Call("end_auction", state.initializer, "Ok")
    /\ seller_paid > 0
    /\ escrowBalance > 0

\* ----------------------------------------------------------------------- C9
\* C9: a successful refund deletes the caller's own Bid record and changes
\* no field of State; for a caller other than the highest bidder it moves
\* exactly that record's amount from the treasury to the caller, for the
\* highest bidder it moves nothing out of the treasury (the caller gets the
\* rent of the closed record in both cases).
C9_RefundEffect ==
    [][\A u \in Users :
          last' = Call("refund", u, "Ok") =>
              /\ u \in DOMAIN user_bid
              /\ user_bid' = [x \in DOMAIN user_bid \ {u} |-> user_bid[x]]
              /\ state' = state
              /\ LET paid == IF u # state.highest_bidder_account
                             THEN user_bid[u] ELSE 0
                 IN  /\ treasury' = treasury - paid
                     /\ lamports' = [lamports EXCEPT
                                        ![u] = @ + paid + RentExemptMin]]_vars

\* The winner has just closed their record after a loser got a deposit back.
C9_WinnerAndLoserRefunded ==
    /\ last = Call("refund", state.highest_bidder_account, "Ok")
    /\ seller_paid > 0
    /\ \E u \in Users : refunded[u] > 0

\* ---------------------------------------------------------------------- C10
\* C10 as stated, for an auction that has a leader: end_auction called with
\* the highest bidder's Bid account by anyone but the seller fails with
\* ConstraintHasOne (the spec's Unauthorized), and called by the seller
\* before the deadline fails with StillActive; both change no account.
C10_SettleGuardsAsStated ==
    [][(last'.op = "end_auction" /\ state_created
          /\ state.highest_bidder_account \in Users
          /\ end_auction(last'.caller, state.highest_bidder_account)) =>
           /\ last'.caller # state.initializer =>
                  /\ last'.result = "ConstraintHasOne"
                  /\ UNCHANGED <<accounts, history>>
           /\ (last'.caller = state.initializer /\ now < state.deadline) =>
                  /\ last'.result = "StillActive"
                  /\ UNCHANGED <<accounts, history>>]_vars

\* C10, amended: end_auction never succeeds for a caller other than the
\* seller nor before the deadline, and changes no account in both cases; the
\* error is ConstraintHasOne for a caller other than the seller and
\* StillActive for the seller before the deadline whenever the Bid account
\* passed exists (for the seller: the highest bidder's); while that record
\* does not exist the call fails in account validation with record-not-found.
C10_SettleGuards ==
    [][(last'.op = "end_auction"
          /\ (last'.caller # state.initializer \/ now < state.deadline)) =>
           /\ last'.result # "Ok"
           /\ UNCHANGED <<accounts, history>>
           /\ \A k \in Keys :
                 end_auction(last'.caller, k) =>
                    /\ k \notin DOMAIN user_bid =>
                           last'.result = "AccountNotInitialized"
                    /\ (k \in DOMAIN user_bid
                           /\ last'.caller # state.initializer) =>
                           last'.result = "ConstraintHasOne"
                    /\ (k \in DOMAIN user_bid
                           /\ last'.caller = state.initializer
                           /\ k = state.highest_bidder_account) =>
                           last'.result = "StillActive"]_vars

\* Somebody other than the seller tried to settle an expired auction with bids.
C10_StrangerRejected ==
    /\ last.op = "end_auction"
    /\ last.result = "ConstraintHasOne"
    /\ last.caller # state.initializer
    /\ now >= state.deadline
    /\ state.highest_bid_amount > 0

\* ---------------------------------------------------------------------- C11
\* C11: the successful operations are ordered by phase: a bid succeeds only
\* before the deadline, with no settle and no refund done; end_auction
\* succeeds only at or after the deadline, with no settle and no refund
\* done; a refund succeeds only at or after the deadline and after the
\* successful settle.
C11_PhaseOrder ==
    [][last'.result = "Ok" =>
          /\ last'.op = "bid" =>
                 /\ now < state.deadline
                 /\ settle_count = 0
                 /\ \A u \in Users : refund_count[u] = 0
          /\ last'.op = "end_auction" =>
                 /\ now >= state.deadline
                 /\ settle_count = 0
                 /\ \A u \in Users : refund_count[u] = 0
          /\ last'.op = "refund" =>
                 /\ now >= state.deadline
                 /\ settle_count = 1]_vars

\* An auction went through all three phases.
C11_AllPhasesDone ==
    /\ Len(committed) >= 2
    /\ settle_count = 1
    /\ \E u \in Users : refund_count[u] = 1
    /\ last.op = "refund"
    /\ last.result = "Ok"

\* ---------------------------------------------------------------------- C12
\* C12 as stated: a bid call before the deadline by a bidder who holds a Bid
\* record and can pay the amount is accepted and overwrites the record.
C12_RebidAsStated ==
    [][(last'.op = "bid" /\ last'.caller \in DOMAIN user_bid
          /\ now < state.deadline) =>
           \A a \in AmountsIn :
              (bid(last'.caller, a)
                 /\ lamports[last'.caller] >= sol_to_lamports(a)) =>
                 /\ last'.result = "Ok"
                 /\ user_bid'[last'.caller] = sol_to_lamports(a)]_vars

\* C12, amended: a bidder who already holds a Bid record cannot bid again:
\* the call fails at the creation of the record (account already in use),
\* moves no funds and changes neither the record nor the leader; so every
\* bidder has at most one accepted bid and an existing Bid record holds the
\* amount of that bid.
C12_OneBidPerBidder ==
    /\ [](\A u \in Users :
             /\ Cardinality({i \in 1 .. Len(committed) :
                                committed[i].bidder = u}) <= 1
             /\ u \in DOMAIN user_bid => user_bid[u] = Deposited(u))
    /\ [][(last'.op = "bid" /\ last'.caller \in DOMAIN user_bid) =>
               /\ last'.result = "AccountAlreadyInUse"
               /\ UNCHANGED <<accounts, history>>]_vars

\* A bidder holding a record bid a second time before the deadline.
C12_RebidRejected ==
    /\ last.op = "bid"
    /\ last.result = "AccountAlreadyInUse"
    /\ now < state.deadline
    /\ user_bid[last.caller] > 0

\* ---------------------------------------------------------------------- C13
\* C13 as stated: after the deadline, with no bid ever placed, the seller's
\* end_auction succeeds, moves no funds, sets seller_payed and leaves
\* highest_bid_amount at 0.
C13_NoBidSettleAsStated ==
    [][(last'.op = "end_auction" /\ state_created /\ committed = << >>
          /\ now >= state.deadline /\ ~state.seller_payed
          /\ SellerSettles) =>
           /\ last'.result = "Ok"
           /\ state'.seller_payed
           /\ state'.highest_bid_amount = 0
           /\ UNCHANGED <<treasury, lamports>>]_vars

\* What the program does instead: while no bid was ever placed, no
\* end_auction call succeeds:
\* whatever account is passed as the highest bidder's Bid record does not
\* exist, the call fails in account validation with record-not-found, no
\* funds move, and seller_payed stays false and highest_bid_amount 0.
C13_NoBidNoSettle ==
    /\ [](committed = << >> =>
             /\ ~state.seller_payed
             /\ state.highest_bid_amount = 0
             /\ settle_count = 0)
    /\ [][(last'.op = "end_auction" /\ committed = << >>) =>
               /\ last'.result = "AccountNotInitialized"
               /\ UNCHANGED <<accounts, history>>]_vars

\* The seller tried to settle an expired auction nobody had bid in.
C13_NoBidSettleRejected ==
    /\ state_created
    /\ committed = << >>
    /\ now >= state.deadline
    /\ last = Call("end_auction", state.initializer, "AccountNotInitialized")

C15_EscrowCoversPayouts ==
    /\ last.result # "TreasuryInsufficientFunds"
    /\ (state_created /\ now >= state.deadline) =>
          /\ (~state.seller_payed
                 /\ state.highest_bidder_account \in DOMAIN user_bid) =>
                 user_bid[state.highest_bidder_account] <= escrowBalance
          /\ state.seller_payed =>
                 \A u \in DOMAIN user_bid \ {state.highest_bidder_account} :
                    user_bid[u] <= escrowBalance

\* The last escrowed lamports have just been refunded.
C15_EscrowEmptiedByRefund ==
    /\ last.op = "refund"
    /\ last.result = "Ok"
    /\ refunded[last.caller] > 0
    /\ seller_paid > 0
    /\ escrowBalance = 0

\* ---------------------------------------------------------------------- C16
\* C16: initialize on an existing auction fails with AccountAlreadyInUse
\* (the spec's AlreadyExists) and changes neither State nor the treasury.
C16_NoReinitialize ==
    [][(last'.op = "initialize" /\ state_created) =>
           /\ last'.result = "AccountAlreadyInUse"
           /\ UNCHANGED <<accounts, history>>]_vars

\* A second initialize was rejected on an auction that holds a bid.
C16_ReinitializeRejected ==
    /\ last = Call("initialize", Seller, "AccountAlreadyInUse")
    /\ state.highest_bid_amount > 0
    /\ escrowBalance > 0

\* ---------------------------------------------------------------------- C17
\* The terminal state: the seller is paid, no Bid record remains and the
\* escrow holds no deposit.
Terminal ==
    /\ state.seller_payed
    /\ DOMAIN user_bid = {}
    /\ escrowBalance = 0

\* C17: once an auction with an accepted bid is past its deadline, it
\* eventually reaches the terminal state and stays there.
C17_ReachesTerminal ==
    [](( state_created /\ committed # << >> /\ now >= state.deadline)
          => <>[]Terminal)

\* The same for auctions in which some accepted bid is positive.
C17_ReachesTerminalWithLeader ==
    [](( state_created /\ committed # << >> /\ MaxCommitted > 0
           /\ now >= state.deadline)
          => <>[]Terminal)

\* ---------------------------------------------------------------------- C18
\* C18: an initialize whose now + auction_duration is outside the i64 range
\* is rejected with InvalidDuration and creates no auction.
C18_OverflowRejected ==
    [][(last'.op = "initialize" /\ ~state_created) =>
           \A d \in Durations, oc \in BOOLEAN :
              (initialize(d, oc) /\ Initialize(Seller) = "Ok"
                 /\ (now + d > I64Max \/ now + d < I64Min)) =>
                 /\ last'.result = "InvalidDuration"
                 /\ ~state_created']_vars

\* ---------------------------------------------------------------------- C19
\* C19: while an auction with an accepted bid is not settled, the Bid record
\* of highest_bidder_account exists and its amount is highest_bid_amount.
C19_LeaderRecordMatches ==
    (state_created /\ committed # << >> /\ ~state.seller_payed) =>
        /\ state.highest_bidder_account \in DOMAIN user_bid
        /\ user_bid[state.highest_bidder_account] = state.highest_bid_amount

\* The same for auctions in which some accepted bid is positive.
C19_LeaderRecordMatchesWithLeader ==
    (state_created /\ committed # << >> /\ MaxCommitted > 0
       /\ ~state.seller_payed) =>
        /\ state.highest_bidder_account \in DOMAIN user_bid
        /\ user_bid[state.highest_bidder_account] = state.highest_bid_amount

\* ---------------------------------------------------------------------- C20
\* C20: once the auction exists, no bid, end_auction or refund changes
\* State.initializer or State.deadline, and a refund, successful or not,
\* changes no field of State.
C20_StateFrame ==
    [][(state_created /\ last'.op \in {"bid", "end_auction", "refund"}) =>
           /\ state_created'
           /\ state'.initializer = state.initializer
           /\ state'.deadline = state.deadline
           /\ last'.op = "refund" => state' = state]_vars

\* The winner's refund has just succeeded and State still names them.
C20_WinnerRefundKeptState ==
    /\ last.op = "refund"
    /\ last.result = "Ok"
    /\ last.caller = state.highest_bidder_account
    /\ state.seller_payed
    /\ state.initializer = Seller

====
